---- MODULE Spec2Model ----
(***************************************************************************)
(* A model of the utils_psa chunk-aggregation and normalisation pipeline: *)
(*   chunk.py      chunk_by_time, per_chunk_analysis                     *)
(*   compile.py    combine_chunks                                        *)
(*   normalize.py  normalize_data                                        *)
(*   cli.py        run_analysis (with file_handling.py, preprocess.py)   *)
(* Each stage is a state machine of its own over the variables it uses;   *)
(* the variables of the other stages stay at their idle values.           *)
(*   SpecChunk, SpecChunkRerun, SpecRace   chunk_by_time: one call,       *)
(*                        repeated and interrupted calls, two at once     *)
(*   SpecReduce, SpecReduceNames           per_chunk_analysis             *)
(*   SpecCompile, SpecCompileFaults        combine_chunks                 *)
(*   SpecNorm, SpecNormFloat               normalize_data                 *)
(*   SpecRun, SpecRunLive                  run_analysis on the paths      *)
(***************************************************************************)
EXTENDS Integers, Sequences, FiniteSets, TLC

VARIABLES
    \* ---- chunk_by_time (chunk.py:17-96)
    df,           \* the input table: a sequence of Time cells, one per row
    chunk_size,   \* the chunk_size argument, seconds
    disk,         \* chunk_output_dir: chunk number -> rows (indices into df) of chunk_NN.csv
    cpc,          \* position of the call: "call", "loop", "done"
    start_time,   \* loop variable of range(0, max_time, chunk_size)
    chunk_num,    \* the counter chunk_num
    ret,          \* the value returned: "none" while running, TRUE or FALSE
    \* ---- per_chunk_analysis (chunk.py:99-216)
    nfiles,       \* len(matching_files)
    fidx,         \* number of matching files the loop has taken
    filepath,     \* the loop variable: the file being processed (stem and table)
    average_frequencies,  \* the row reduced from filepath; NoRow if it was skipped
    all_chunks_data,      \* the list all_chunks_data
    raw_out,      \* chunk_NN_raw.csv: <<>> until written
    rpc,          \* position of the call: "call", "loop", "done"
    rret,         \* the value returned
    \* ---- combine_chunks (compile.py:7-65), one chunk name of one sleep state
    paths,        \* chunk_files[chunk_name]: the tables of the animals' files
    pidx,         \* number of paths the loop has taken
    merged_df,    \* merged_df: NoFrame until the first file is read
    col_counts,   \* the keys of col_counts, in insertion order
    averaged,     \* the table written to compiled/<state>/<chunk_name>
    mpc,          \* position: "loop", "done"
    \* ---- normalize_data (normalize.py:6-127)
    ndf,          \* the combined raw table read from input_filepath
    baseline_session_type,  \* the argument baseline_session_type
    step1_df,     \* normalized_df after step 1 (per-frequency z-score)
    norm_out,     \* chunk_NN_norm.csv: <<>> until written
    npc,          \* position: "call", "step1", "done"
    nret,         \* the value returned
    \* ---- repeated and concurrent calls of chunk_by_time on one input
    writes,       \* number of to_csv calls on chunk files so far
    calls,        \* the calls that ended: how each ended, the directory it left
    inv,          \* the concurrent invocations: position, loop variable, counter, result
    \* ---- run_analysis (cli.py:14-233) on the paths of the output directory
    traces_cfft_files,  \* the *_cFFT.csv files under raw_data_dir
    dirs,         \* the directories under output_data_dir, as paths
    files,        \* the files under output_data_dir: directory, name, content
    step,         \* the step of run_analysis under way
    todo,         \* the units the loop of the step has still to take
    count,        \* the step's counter of successful units
    animals,      \* the list animals
    processed,    \* processed_rem_nrem_files
    max_chunk_num,  \* max_chunk_num
    exit_code     \* -1 while running, then the exit status

chunkVars == <<df, chunk_size, disk, cpc, start_time, chunk_num, ret>>

reduceVars == <<nfiles, fidx, filepath, average_frequencies, all_chunks_data,
                raw_out, rpc, rret>>

compileVars == <<paths, pidx, merged_df, col_counts, averaged, mpc>>

normVars == <<ndf, baseline_session_type, step1_df, norm_out, npc, nret>>

runVars == <<writes, calls, inv>>

pipeVars == <<traces_cfft_files, dirs, files, step, todo, count, animals, processed,
              max_chunk_num, exit_code>>

vars == <<chunkVars, reduceVars, compileVars, normVars, runVars, pipeVars>>

----------------------------------------------------------------------------
(* Bounds *)

MaxRows == 3          \* rows of an input table of chunk_by_time
MaxMinute == 3        \* largest minute field of a Time cell
MaxChunkMinutes == 2  \* largest chunk_size, in minutes
MaxFiles == 2         \* chunk files matched by one per_chunk_analysis call
MaxEpochs == 2        \* rows of one chunk file
MaxStemPieces == 2    \* pieces of a chunk file's name before its _NN suffix
MaxAnimals == 3       \* animals that contribute a chunk file of one name
MaxBands == 2         \* frequency rows of one animal's chunk file
MaxNormRows == 3      \* rows of a combined raw table
FloatPrecision == 4   \* significant bits of a floating-point number
MaxCalls == 2         \* ended calls of chunk_by_time before the one under way
MaxRawFiles == 2      \* *_cFFT.csv files under the raw data directory
MaxWindows == 2       \* chunk files one split table yields

----------------------------------------------------------------------------
(* Helpers *)

Range(s) == {s[i] : i \in DOMAIN s}

RECURSIVE SeqsUpTo(_, _)
\* all sequences over S of length 0..n
SeqsUpTo(S, n) ==
    IF n = 0 THEN {<<>>}
    ELSE LET shorter == SeqsUpTo(S, n - 1)
         IN  shorter \cup {Append(s, x) : s \in {t \in shorter : Len(t) = n - 1}, x \in S}

Abs(x) == IF x < 0 THEN -x ELSE x

RECURSIVE GCD(_, _)
GCD(a, b) == IF b = 0 THEN a ELSE GCD(b, a % b)

\* Exact numbers.  A number is the rational n/d (d > 0, lowest terms) divided
\* by the square root of the positive rational rn/rd; a plain rational has
\* rn = rd = 1.  k = "nan" is the missing value NaN.
Num(n, d, rn, rd) ==
    LET g == GCD(Abs(n), d)
        h == GCD(rn, rd)
    IN  [k |-> "num", n |-> n \div g, d |-> d \div g, rn |-> rn \div h, rd |-> rd \div h]

Rat(n, d) == Num(n, d, 1, 1)

NaN == [k |-> "nan", n |-> 0, d |-> 1, rn |-> 1, rd |-> 1]

IsNum(x) == x.k = "num"

\* x - y for two numbers over the same square root; NaN if either is missing
Minus(x, y) ==
    IF ~IsNum(x) \/ ~IsNum(y) THEN NaN
    ELSE Num(x.n * y.d - y.n * x.d, x.d * y.d, x.rn, x.rd)

\* x / y for y >= 0; a division by zero yields no number
Over(x, y) ==
    IF ~IsNum(x) \/ ~IsNum(y) \/ y.n = 0 THEN NaN
    ELSE Num(x.n * y.d, x.d * y.n, x.rn * y.rd, x.rd * y.rn)

Plus(x, y) ==
    IF ~IsNum(x) \/ ~IsNum(y) THEN NaN
    ELSE Num(x.n * y.d + y.n * x.d, x.d * y.d, x.rn, x.rd)

\* x * a / b for integers a and b > 0
Scale(x, a, b) == IF ~IsNum(x) THEN NaN ELSE Num(x.n * a, x.d * b, x.rn, x.rd)

\* the square of the rational part of x
Square(x) == Rat(x.n * x.n, x.d * x.d)

RECURSIVE Sum(_)
\* the sum of a non-empty sequence of numbers
Sum(s) == IF Len(s) = 1 THEN s[1] ELSE Plus(s[1], Sum(Tail(s)))

\* pandas Series.mean(): the mean of the entries present, NaN if there is none
Mean(col) ==
    LET present == SelectSeq(col, IsNum)
    IN  IF present = <<>> THEN NaN ELSE Scale(Sum(present), 1, Len(present))

\* pandas Series.std(): the sample standard deviation (ddof = 1) of the entries
\* present, NaN if fewer than two are present
Std(col) ==
    LET present == SelectSeq(col, IsNum)
        m == Mean(col)
        n == Len(present)
        var == Scale(Sum([i \in 1..n |-> Square(Minus(present[i], m))]), 1, n - 1)
    IN  IF n < 2 THEN NaN
        ELSE IF var.n = 0 THEN Num(0, 1, present[1].rn, present[1].rd)
        ELSE Num(1, 1, present[1].rn * var.d, present[1].rd * var.n)

\* std > 0; a comparison with NaN is False
Positive(x) == IsNum(x) /\ x.n > 0

----------------------------------------------------------------------------
(* Values of tables *)

\* a cell that holds text
TXT == [k |-> "txt", n |-> 0, d |-> 1, rn |-> 1, rd |-> 1]

\* a column a row does not have
Absent == [k |-> "absent", n |-> 0, d |-> 1, rn |-> 1, rd |-> 1]

\* the columns of a chunk file: one identifying column and two frequency bands
Columns == {"EpochNo", "f1", "f2"}

NoFile == [stem |-> <<>>, table |-> [c \in Columns |-> <<>>]]

NoRow == [Animal |-> "", SleepState |-> "", SessionType |-> "", ChunkNum |-> 0,
          freq |-> [c \in Columns |-> Absent]]

\* the frequency columns of a combined raw table
FreqCols == {"f1"}

----------------------------------------------------------------------------
(* The stages at rest *)

ChunkIdle ==
    /\ df = <<>>
    /\ chunk_size = 60
    /\ disk = <<>>
    /\ cpc = "idle"
    /\ start_time = 0
    /\ chunk_num = 0
    /\ ret = "none"

ReduceIdle ==
    /\ nfiles = 0
    /\ fidx = 0
    /\ filepath = NoFile
    /\ average_frequencies = NoRow
    /\ all_chunks_data = <<>>
    /\ raw_out = <<>>
    /\ rpc = "idle"
    /\ rret = "none"

CompileIdle ==
    /\ paths = <<>>
    /\ pidx = 0
    /\ merged_df = [freq |-> <<>>, cols |-> <<>>]
    /\ col_counts = <<>>
    /\ averaged = [freq |-> <<>>, cols |-> <<>>]
    /\ mpc = "idle"

NormIdle ==
    /\ ndf = <<>>
    /\ baseline_session_type = "baseline"
    /\ step1_df = <<>>
    /\ norm_out = <<>>
    /\ npc = "idle"
    /\ nret = "none"

\* two invocations of chunk_by_time may run at once
Invocations == {1, 2}

PipeIdle ==
    /\ traces_cfft_files = {}
    /\ dirs = {}
    /\ files = {}
    /\ step = "idle"
    /\ todo = {}
    /\ count = 0
    /\ animals = {}
    /\ processed = {}
    /\ max_chunk_num = -1
    /\ exit_code = -1

RunIdle ==
    /\ writes = 0
    /\ calls = <<>>
    /\ inv = [p \in Invocations |->
                [pc |-> "idle", start_time |-> 0, chunk_num |-> 0, ret |-> "none",
                 wrote |-> FALSE]]

----------------------------------------------------------------------------
(* chunk_by_time *)

\* A Time cell "<date>.HH:MM:SS" after the split on "." : its three fields.
TimeCells == {[hh |-> 0, mm |-> m, ss |-> 0] : m \in 0..MaxMinute}

parse_custom_time(t) == t.hh * 3600 + t.mm * 60 + t.ss

\* df["TimeSeconds"]
TimeSeconds(i) == parse_custom_time(df[i])

\* the elapsed-time column is monotonically non-decreasing
Monotone(s) == \A i \in 1..(Len(s) - 1) : parse_custom_time(s[i]) <= parse_custom_time(s[i + 1])

InputTables == {s \in SeqsUpTo(TimeCells, MaxRows) : Monotone(s)}

ChunkSizes == {60 * k : k \in 1..MaxChunkMinutes}

\* df["TimeSeconds"].iloc[-1]
max_time == TimeSeconds(Len(df))

\* the mutant: the upper bound of the window taken inclusive
ChunkDf_Inclusive(st, en) ==
    SelectSeq([i \in 1..Len(df) |-> i],
              LAMBDA i : TimeSeconds(i) >= st /\ TimeSeconds(i) <= en)

\* chunk_df = df[(TimeSeconds >= start_time) & (TimeSeconds < end_time)]
ChunkDf(st, en) ==
    SelectSeq([i \in 1..Len(df) |-> i],
              LAMBDA i : TimeSeconds(i) >= st /\ TimeSeconds(i) < en)

InitChunk ==
    /\ PipeIdle
    /\ RunIdle
    /\ ReduceIdle
    /\ CompileIdle
    /\ NormIdle
    /\ df \in InputTables
    /\ chunk_size \in ChunkSizes
    /\ disk = <<>>
    /\ cpc = "call"
    /\ start_time = 0
    /\ chunk_num = 0
    /\ ret = "none"

\* the mutant: the existing chunk files are not looked for
ChunkStart_NoSkip ==
    /\ cpc = "call"
    /\ IF Len(df) = 0
       THEN /\ cpc' = "done"
            /\ ret' = FALSE
       ELSE /\ cpc' = "loop"
            /\ ret' = ret
    /\ start_time' = 0
    /\ chunk_num' = 0
    /\ UNCHANGED <<df, chunk_size, disk, reduceVars, compileVars, normVars, runVars, pipeVars>>

\* lines 31-66: the output directory is made and globbed, the table read
ChunkStart ==
    /\ cpc = "call"
    /\ IF DOMAIN disk # {}
       THEN \* chunk files already exist: skip
            /\ cpc' = "done"
            /\ ret' = TRUE
       ELSE IF Len(df) = 0
       THEN \* iloc[-1] of an empty column raises; the handler returns False
            /\ cpc' = "done"
            /\ ret' = FALSE
       ELSE /\ cpc' = "loop"
            /\ ret' = ret
    /\ start_time' = 0
    /\ chunk_num' = 0
    /\ UNCHANGED <<df, chunk_size, disk, reduceVars, compileVars, normVars, runVars, pipeVars>>

\* lines 67-90: one iteration of the loop over range(0, max_time, chunk_size)
ChunkLoop ==
    /\ cpc = "loop"
    /\ start_time < max_time
    /\ LET end_time == start_time + chunk_size
           chunk_df == ChunkDf(start_time, end_time)
       IN  IF chunk_df = <<>>
           THEN UNCHANGED <<disk, chunk_num, writes>>
           ELSE /\ disk' = [k \in (DOMAIN disk) \cup {chunk_num} |->
                               IF k = chunk_num THEN chunk_df ELSE disk[k]]
                /\ chunk_num' = chunk_num + 1
                /\ writes' = writes + 1
    /\ start_time' = start_time + chunk_size
    /\ UNCHANGED <<df, chunk_size, cpc, ret, calls, inv, reduceVars, compileVars, normVars, pipeVars>>

\* line 92: the range is exhausted
ChunkReturn ==
    /\ cpc = "loop"
    /\ start_time >= max_time
    /\ cpc' = "done"
    /\ ret' = TRUE
    /\ UNCHANGED <<df, chunk_size, disk, start_time, chunk_num, reduceVars, compileVars, normVars, runVars, pipeVars>>

NextChunk == ChunkStart \/ ChunkLoop \/ ChunkReturn

SpecChunk == InitChunk /\ [][NextChunk]_vars

----------------------------------------------------------------------------
(* Properties of chunk_by_time *)

\* the rows whose elapsed time lies in [i*chunk_size, (i+1)*chunk_size)
WindowRows(i) == {r \in 1..Len(df) : TimeSeconds(r) \div chunk_size = i}

\* the chunk files that hold row r
FilesContaining(r) == {k \in DOMAIN disk : r \in Range(disk[k])}

\* the window a written chunk file was cut from
WindowOf(k) == TimeSeconds(disk[k][1]) \div chunk_size

\* C1: after a successful call on a table with a non-decreasing time column,
\* every row of the table is in exactly one chunk file (none dropped, none
\* duplicated), the rows at max_time included.
C1_EveryRowInExactlyOneChunk ==
    (cpc = "done" /\ ret = TRUE) =>
        \A r \in 1..Len(df) : Cardinality(FilesContaining(r)) = 1

\* C2 as stated: the chunk file numbered k holds exactly the rows of window k
\* (indices are window indices, kept with gaps), and no file is empty.
C2_FileIndexIsWindowIndex ==
    \A k \in DOMAIN disk :
        /\ disk[k] # <<>>
        /\ Range(disk[k]) = WindowRows(k)

\* C2 amended: emitted windows are renumbered without gaps.  The written files
\* are numbered 0..n-1; file k is not empty and holds exactly the rows of one
\* window, the k-th non-empty one in increasing window order (so its window
\* index is at least k); a finished call has written one file for every
\* non-empty window that starts before max_time.
C2_FilesAreRenumberedWindows ==
    /\ DOMAIN disk = 0..(chunk_num - 1)
    /\ \A k \in DOMAIN disk :
        /\ disk[k] # <<>>
        /\ Range(disk[k]) = WindowRows(WindowOf(k))
        /\ \A a, b \in 1..Len(disk[k]) : a < b => disk[k][a] < disk[k][b]
        /\ Cardinality({j \in 0..(WindowOf(k) - 1) : WindowRows(j) # {}}) = k
    /\ (cpc = "done" /\ ret = TRUE) =>
        Cardinality(DOMAIN disk) =
            Cardinality({j \in 0..(max_time \div chunk_size) :
                            j * chunk_size < max_time /\ WindowRows(j) # {}})

\* C2 witness: a finished call that skipped an empty window, so that a later
\* file's number is smaller than its window index.
C2_Witness ==
    /\ cpc = "done"
    /\ ret = TRUE
    /\ \E k \in DOMAIN disk : WindowOf(k) > k

----------------------------------------------------------------------------
(* chunk_by_time called again on the same input and output location *)

\* the process is terminated while the loop of lines 67-90 is under way
ChunkKill ==
    /\ cpc = "loop"
    /\ cpc' = "killed"
    /\ UNCHANGED <<df, chunk_size, disk, start_time, chunk_num, ret>>
    /\ UNCHANGED <<reduceVars, compileVars, normVars, runVars, pipeVars>>

\* lines 83-85, 94-96: to_csv raises on a non-empty window; the handler of
\* line 94 prints the error and the call returns False
ChunkWriteError ==
    /\ cpc = "loop"
    /\ start_time < max_time
    /\ ChunkDf(start_time, start_time + chunk_size) # <<>>
    /\ cpc' = "done"
    /\ ret' = FALSE
    /\ UNCHANGED <<df, chunk_size, disk, start_time, chunk_num>>
    /\ UNCHANGED <<reduceVars, compileVars, normVars, runVars, pipeVars>>

\* how the call that has ended ended
Outcome == IF cpc = "killed" THEN "killed" ELSE IF ret THEN "true" ELSE "false"

\* the caller (cli.py:152-154, or a later run) calls chunk_by_time again with
\* the same input_filepath, output_base_dir and chunk_size
ChunkAgain ==
    /\ cpc \in {"done", "killed"}
    /\ Len(calls) < MaxCalls
    /\ calls' = Append(calls, [outcome |-> Outcome, disk |-> disk, writes |-> writes])
    /\ cpc' = "call"
    /\ ret' = "none"
    /\ start_time' = 0
    /\ chunk_num' = 0
    /\ UNCHANGED <<df, chunk_size, disk, writes, inv>>
    /\ UNCHANGED <<reduceVars, compileVars, normVars, pipeVars>>

NextChunkRerun ==
    \/ ChunkStart
    \/ ChunkLoop
    \/ ChunkReturn
    \/ ChunkKill
    \/ ChunkWriteError
    \/ ChunkAgain

SpecChunkRerun == InitChunk /\ [][NextChunkRerun]_vars

\* C11: once a call has returned success, every later call with the same
\* input, output location and chunk_size writes no chunk file (no to_csv call
\* is made, so none is created or modified), leaves the set and content of
\* the chunk files as the successful call left them, and returns success.
C11_SecondCallIsNoOp ==
    \A i \in 1..Len(calls) :
        calls[i].outcome = "true" =>
            /\ disk = calls[i].disk
            /\ writes = calls[i].writes
            /\ \A j \in (i + 1)..Len(calls) : calls[j].outcome # "false"
            /\ (cpc = "done") => ret

\* C11 witness: a call that wrote chunk files returned success and a second
\* call has returned too.
C11_Witness ==
    /\ Len(calls) >= 1
    /\ calls[1].outcome = "true"
    /\ DOMAIN calls[1].disk # {}
    /\ cpc = "done"

\* the windows an uninterrupted call writes: the non-empty ones that start
\* before max_time
WindowsToWrite ==
    {j \in 0..(max_time \div chunk_size) :
        j * chunk_size < max_time /\ WindowRows(j) # {}}

\* the chunk files on disk are those an uninterrupted call leaves
Complete ==
    /\ Cardinality(DOMAIN disk) = Cardinality(WindowsToWrite)
    /\ \A j \in WindowsToWrite : \E k \in DOMAIN disk : Range(disk[k]) = WindowRows(j)

\* C12: when an earlier call for the unit was interrupted (terminated, or a
\* write failed) and a later call on the unchanged input returns success, the
\* chunk files on disk are the complete set of windows of the input: the
\* incomplete unit was redone in full, and only a complete unit is skipped.
C12_InterruptedUnitIsRedone ==
    (/\ cpc = "done"
     /\ \E i \in 1..Len(calls) : calls[i].outcome # "true") =>
        (ret => Complete)

----------------------------------------------------------------------------
(* two invocations of chunk_by_time at once, same input and output location *)

InitRace ==
    /\ PipeIdle
    /\ ReduceIdle
    /\ CompileIdle
    /\ NormIdle
    /\ df \in InputTables
    /\ chunk_size \in ChunkSizes
    /\ disk = <<>>
    /\ cpc = "idle"
    /\ start_time = 0
    /\ chunk_num = 0
    /\ ret = "none"
    /\ writes = 0
    /\ calls = <<>>
    /\ inv = [p \in Invocations |->
                [pc |-> "call", start_time |-> 0, chunk_num |-> 0, ret |-> "none",
                 wrote |-> FALSE]]

\* lines 47-66 in invocation p: the directory is made and globbed; the
\* decision to skip is taken on what the glob saw
RaceStart(p) ==
    /\ inv[p].pc = "call"
    /\ inv' = [inv EXCEPT ![p] =
                 IF DOMAIN disk # {}
                 THEN [@ EXCEPT !.pc = "done", !.ret = "true"]
                 ELSE IF Len(df) = 0
                 THEN [@ EXCEPT !.pc = "done", !.ret = "false"]
                 ELSE [@ EXCEPT !.pc = "loop"]]
    /\ UNCHANGED <<chunkVars, reduceVars, compileVars, normVars, writes, calls, pipeVars>>

\* lines 67-90 in invocation p: one iteration, the write of line 83 included
RaceLoop(p) ==
    /\ inv[p].pc = "loop"
    /\ inv[p].start_time < max_time
    /\ LET chunk_df == ChunkDf(inv[p].start_time, inv[p].start_time + chunk_size)
           num == inv[p].chunk_num
       IN  IF chunk_df = <<>>
           THEN /\ inv' = [inv EXCEPT ![p].start_time = @ + chunk_size]
                /\ UNCHANGED <<disk, writes>>
           ELSE /\ disk' = [k \in (DOMAIN disk) \cup {num} |->
                               IF k = num THEN chunk_df ELSE disk[k]]
                /\ writes' = writes + 1
                /\ inv' = [inv EXCEPT ![p].start_time = @ + chunk_size,
                                      ![p].chunk_num = @ + 1,
                                      ![p].wrote = TRUE]
    /\ UNCHANGED <<df, chunk_size, cpc, start_time, chunk_num, ret, calls>>
    /\ UNCHANGED <<reduceVars, compileVars, normVars, pipeVars>>

\* line 92 in invocation p
RaceReturn(p) ==
    /\ inv[p].pc = "loop"
    /\ inv[p].start_time >= max_time
    /\ inv' = [inv EXCEPT ![p].pc = "done", ![p].ret = "true"]
    /\ UNCHANGED <<chunkVars, reduceVars, compileVars, normVars, writes, calls, pipeVars>>

NextRace == \E p \in Invocations : RaceStart(p) \/ RaceLoop(p) \/ RaceReturn(p)

SpecRace == InitRace /\ [][NextRace]_vars

\* C13: of two concurrent invocations for the same input and output location
\* at most one writes chunk files; the other finds the existing output and
\* writes nothing (first writer wins, others skip).
C13_FirstWriterWins ==
    Cardinality({p \in Invocations : inv[p].wrote}) <= 1

----------------------------------------------------------------------------
(* per_chunk_analysis *)

\* the arguments animal, sleep_state and chunk_num of the call
animal == "RAT1"
sleep_state == "rem"
chunk_num_arg == 0

\* A file name is a sequence of pieces: words, digits and the separator "_".
Pieces == {"baseline", "test", "1", "_"}

\* the stems that the glob *_NN.csv matches for chunk_num 0
Stems == {p \o <<"_", "00">> : p \in SeqsUpTo(Pieces, MaxStemPieces)}

\* the cells of a chunk file as read_csv reads them
Cells == {Rat(1, 1), Rat(3, 1), NaN, TXT}

Tables ==
    UNION {
        {[c \in Columns |-> IF c = "EpochNo" THEN [i \in 1..n |-> Rat(i, 1)]
                            ELSE IF c = "f1" THEN a ELSE b] :
            a \in [1..n -> Cells], b \in [1..n -> Cells]} :
        n \in 1..MaxEpochs}

\* The name and the table of a file are used independently of each other.
\* TableFiles are the files of every table under a plain name, NamedFiles the
\* files of every name with a plain table or with a table of text only.
PlainTable == [c \in Columns |-> IF c = "f2" THEN <<Rat(3, 1)>> ELSE <<Rat(1, 1)>>]

TextTable == [c \in Columns |-> IF c = "EpochNo" THEN <<Rat(1, 1)>> ELSE <<TXT>>]

PlainStem == <<"baseline", "_", "00">>

TableFiles == [stem : {PlainStem}, table : Tables]

NamedFiles == [stem : Stems, table : {PlainTable, TextTable}]

RECURSIVE Split(_)
\* str.split("_"): the tokens between the separators, each a sequence of pieces
Split(s) ==
    IF s = <<>> THEN << <<>> >>
    ELSE LET r == Split(Tail(s))
         IN  IF Head(s) = "_" THEN << <<>> >> \o r
             ELSE << <<Head(s)>> \o Head(r) >> \o Tail(r)

\* the mutant: the marker looked for anywhere in the name
session_type_Substring(stem) ==
    IF "baseline" \in Range(stem) THEN "baseline"
    ELSE IF "test" \in Range(stem) THEN "test"
    ELSE "unknown"

\* lines 172-177: the session type from the tokens of the stem
session_type(stem) ==
    LET filename_parts == Split(stem)
    IN  IF <<"baseline">> \in Range(filename_parts) THEN "baseline"
        ELSE IF <<"test">> \in Range(filename_parts) THEN "test"
        ELSE "unknown"

non_freq_cols == {"EpochNo", "Stage", "Time"}

\* pd.api.types.is_numeric_dtype: read_csv gives a column a numeric dtype
\* only if no cell of it holds text
is_numeric_dtype(col) == \A i \in DOMAIN col : col[i] # TXT

\* lines 139-144
freq_cols(table) ==
    {c \in Columns : c \notin non_freq_cols /\ is_numeric_dtype(table[c])}

\* pd.to_numeric(errors="coerce") on one cell
to_numeric(cell) == IF cell = TXT THEN NaN ELSE cell

\* lines 153-157: the coerced frequency columns that are not entirely NaN
df_freq_numeric(table) ==
    {c \in freq_cols(table) : \E i \in DOMAIN table[c] : IsNum(to_numeric(table[c][i]))}

\* lines 131-186: the row reduced from one file, NoRow if the file is skipped
ReduceRow(f) ==
    IF freq_cols(f.table) = {} \/ df_freq_numeric(f.table) = {} THEN NoRow
    ELSE [Animal |-> animal, SleepState |-> sleep_state,
          SessionType |-> session_type(f.stem), ChunkNum |-> chunk_num_arg,
          freq |-> [c \in Columns |->
                      IF c \in df_freq_numeric(f.table)
                      THEN Mean([i \in DOMAIN f.table[c] |-> to_numeric(f.table[c][i])])
                      ELSE Absent]]

\* line 193: pd.concat of the rows; a column some row lacks is NaN there
Concat(rows) ==
    [i \in DOMAIN rows |->
        [rows[i] EXCEPT !.freq =
            [c \in Columns |->
                IF rows[i].freq[c] = Absent /\ \E j \in DOMAIN rows : rows[j].freq[c] # Absent
                THEN NaN ELSE rows[i].freq[c]]]]

InitReduce ==
    /\ PipeIdle
    /\ RunIdle
    /\ ChunkIdle
    /\ CompileIdle
    /\ NormIdle
    /\ nfiles \in 0..MaxFiles
    /\ fidx = 0
    /\ filepath = NoFile
    /\ average_frequencies = NoRow
    /\ all_chunks_data = <<>>
    /\ raw_out = <<>>
    /\ rpc = "call"
    /\ rret = "none"

\* lines 117-129: the glob; no matching file returns False
ReduceStart ==
    /\ rpc = "call"
    /\ IF nfiles = 0
       THEN rpc' = "done" /\ rret' = FALSE
       ELSE rpc' = "loop" /\ rret' = rret
    /\ UNCHANGED <<nfiles, fidx, filepath, average_frequencies, all_chunks_data, raw_out>>
    /\ UNCHANGED <<chunkVars, compileVars, normVars, runVars, pipeVars>>

\* lines 131-189: one iteration of the loop; matching_files is any list of
\* nfiles files of FileSet, the loop takes its next element
ReduceFile(FileSet) ==
    /\ rpc = "loop"
    /\ fidx < nfiles
    /\ \E f \in FileSet :
        /\ filepath' = f
        /\ average_frequencies' = ReduceRow(f)
        /\ all_chunks_data' = IF ReduceRow(f) = NoRow THEN all_chunks_data
                              ELSE Append(all_chunks_data, ReduceRow(f))
    /\ fidx' = fidx + 1
    /\ UNCHANGED <<nfiles, raw_out, rpc, rret>>
    /\ UNCHANGED <<chunkVars, compileVars, normVars, runVars, pipeVars>>

ReduceTableFile == ReduceFile(TableFiles)

ReduceNamedFile == ReduceFile(NamedFiles)

\* lines 191-216: the rows are concatenated and written
ReduceFinish ==
    /\ rpc = "loop"
    /\ fidx = nfiles
    /\ IF all_chunks_data # <<>>
       THEN raw_out' = Concat(all_chunks_data) /\ rret' = TRUE
       ELSE raw_out' = raw_out /\ rret' = FALSE
    /\ rpc' = "done"
    /\ UNCHANGED <<nfiles, fidx, filepath, average_frequencies, all_chunks_data>>
    /\ UNCHANGED <<chunkVars, compileVars, normVars, runVars, pipeVars>>

NextReduce == ReduceStart \/ ReduceTableFile \/ ReduceFinish

SpecReduce == InitReduce /\ [][NextReduce]_vars

NextReduceNames == ReduceStart \/ ReduceNamedFile \/ ReduceFinish

SpecReduceNames == InitReduce /\ [][NextReduceNames]_vars

----------------------------------------------------------------------------
(* Properties of per_chunk_analysis *)

\* a file has been taken by the loop
FileTaken == rpc \in {"loop", "done"} /\ fidx >= 1

\* the entries of a column that hold a number
NumericEntries(col) == SelectSeq(col, IsNum)

\* v is the arithmetic mean of the non-empty sequence nums of integers
IsMeanOf(v, nums) == IsNum(v) /\ v.rn = v.rd /\ v.n * Len(nums) = Sum(nums).n * v.d

\* C3: for the file just reduced, every column other than EpochNo/Stage/Time
\* with at least one numeric entry is in the reduced row, its value the mean
\* of the numeric entries (text and missing entries ignored); a column with
\* no numeric entry is not in the reduced row.
C3_ReducedRowIsMeanOfNumericEntries ==
    FileTaken =>
        \A c \in Columns \ {"EpochNo", "Stage", "Time"} :
            LET nums == NumericEntries(filepath.table[c])
            IN  IF nums # <<>>
                THEN /\ average_frequencies # NoRow
                     /\ IsMeanOf(average_frequencies.freq[c], nums)
                ELSE average_frequencies.freq[c] = Absent

\* the name has the marker w somewhere in it
HasSubstring(stem, w) == \E i \in 1..Len(stem) : stem[i] = w

\* the name has w as a whole underscore-delimited token
HasToken(stem, w) ==
    \E i \in 1..Len(stem) :
        /\ stem[i] = w
        /\ (i = 1 \/ stem[i - 1] = "_")
        /\ (i = Len(stem) \/ stem[i + 1] = "_")

\* every reduced row is kept, and the written table has every kept row with
\* its session type, the "unknown" ones included
RowsReachOutput ==
    /\ (FileTaken /\ average_frequencies # NoRow) =>
            all_chunks_data[Len(all_chunks_data)] = average_frequencies
    /\ (rpc = "done" /\ all_chunks_data # <<>>) =>
            /\ Len(raw_out) = Len(all_chunks_data)
            /\ \A i \in 1..Len(raw_out) :
                   raw_out[i].SessionType = all_chunks_data[i].SessionType

\* C4 as stated: the session type is decided by substring containment (a name
\* with baseline1 or test2 resolves), and unknown rows reach the output table.
C4_SessionTypeBySubstring ==
    /\ (FileTaken /\ average_frequencies # NoRow) =>
            average_frequencies.SessionType =
                IF HasSubstring(filepath.stem, "baseline") THEN "baseline"
                ELSE IF HasSubstring(filepath.stem, "test") THEN "test"
                ELSE "unknown"
    /\ RowsReachOutput

\* C4 amended: the session type is baseline if some underscore-delimited token
\* of the name is exactly "baseline", else test if some token is exactly
\* "test", else "unknown" (so baseline1 and test2 are unknown); unknown rows
\* reach the output table.
C4_SessionTypeByToken ==
    /\ (FileTaken /\ average_frequencies # NoRow) =>
            average_frequencies.SessionType =
                IF HasToken(filepath.stem, "baseline") THEN "baseline"
                ELSE IF HasToken(filepath.stem, "test") THEN "test"
                ELSE "unknown"
    /\ RowsReachOutput

\* C4 witness: a file named baseline1_00 was reduced, tagged unknown, and its
\* row is in the written table.
C4_Witness ==
    /\ rpc = "done"
    /\ filepath.stem = <<"baseline", "1", "_", "00">>
    /\ average_frequencies.SessionType = "unknown"
    /\ raw_out # <<>>
    /\ raw_out[Len(raw_out)].SessionType = "unknown"

----------------------------------------------------------------------------
(* combine_chunks: the files of one chunk name in one sleep state *)

\* A frame is [freq |-> the Frequency column, cols |-> the other columns in
\* order, each [name, val]]; column names may repeat.  A Frequency label is
\* its digits followed by "Hz"; a column name is a sequence of pieces.
Bands == {<<9>>, <<1, 0, 0>>}

T1 == <<"test", "1">>
T10 == <<"test", "1", "0">>

Values == {Rat(0, 1), Rat(3, 1)}

\* the band lists of a file: distinct labels, in any order
BandLists ==
    {fs \in SeqsUpTo(Bands, MaxBands) :
        fs # <<>> /\ \A i, j \in 1..Len(fs) : i # j => fs[i] # fs[j]}

Const(n, v) == [i \in 1..n |-> v]

\* the files an animal may contribute: test1, test10 or both, one value each
AnimalFrames ==
    UNION {
        {[freq |-> fs, cols |-> <<[name |-> T1, val |-> Const(Len(fs), v)]>>] : v \in Values}
        \cup {[freq |-> fs, cols |-> <<[name |-> T10, val |-> Const(Len(fs), v)]>>] : v \in Values}
        \cup {[freq |-> fs, cols |-> <<[name |-> T1, val |-> Const(Len(fs), v)],
                                       [name |-> T10, val |-> Const(Len(fs), w)]>>] :
                 v \in Values, w \in Values} :
        fs \in BandLists}

NoFrame == [freq |-> <<>>, cols |-> <<>>]

\* a file of no bytes: read_csv raises EmptyDataError on it
EmptyFile == [freq |-> <<>>, cols |-> <<>>]

RECURSIVE NumericValue(_)
\* the number a label's digits denote
NumericValue(ds) ==
    IF ds = <<>> THEN 0 ELSE 10 * NumericValue(SubSeq(ds, 1, Len(ds) - 1)) + ds[Len(ds)]

\* the characters of a label: its digits and then "H", which sorts after them
Chars(ds) == ds \o <<10>>

\* string comparison of two labels
LexLess(a, b) ==
    \E k \in 1..Len(Chars(a)) :
        /\ k <= Len(Chars(b))
        /\ \A j \in 1..(k - 1) : Chars(a)[j] = Chars(b)[j]
        /\ Chars(a)[k] < Chars(b)[k]

\* the labels of a set in string order
LexSorted(S) ==
    CHOOSE s \in [1..Cardinality(S) -> S] :
        \A i, j \in 1..Cardinality(S) : i < j => LexLess(s[i], s[j])

\* the cell of column j of a frame in the row of a label, NaN if it has no such row
ValAt(frame, j, key) ==
    IF \E i \in 1..Len(frame.freq) : frame.freq[i] = key
    THEN frame.cols[j].val[CHOOSE i \in 1..Len(frame.freq) : frame.freq[i] = key]
    ELSE NaN

ColNames(frame) == {frame.cols[j].name : j \in 1..Len(frame.cols)}

Dup(name) == name \o <<"_dup">>

\* lines 41-46: merge(df, on="Frequency", how="outer", suffixes=(None, "_dup")).
\* The keys of an outer merge come out in string order; a column of df whose
\* name the left frame has too is renamed with the suffix, the left one is not.
Merge(left, right) ==
    LET keys == LexSorted(Range(left.freq) \cup Range(right.freq))
        lcols == [j \in 1..Len(left.cols) |->
                    [name |-> left.cols[j].name,
                     val |-> [i \in 1..Len(keys) |-> ValAt(left, j, keys[i])]]]
        rcols == [j \in 1..Len(right.cols) |->
                    [name |-> IF right.cols[j].name \in ColNames(left)
                              THEN Dup(right.cols[j].name) ELSE right.cols[j].name,
                     val |-> [i \in 1..Len(keys) |-> ValAt(right, j, keys[i])]]]
    IN  [freq |-> keys, cols |-> lcols \o rcols]

\* the mutant: the name compared for equality with col or its "_dup" copy
matches_Exact(c, col) == c = col \/ c = Dup(col)

\* line 55: c.startswith(col)
matches(c, col) == Len(col) <= Len(c) /\ SubSeq(c, 1, Len(col)) = col

\* lines 54-56: relevant_cols, the names of merged_df that start with col
relevant_cols(frame, col) ==
    SelectSeq([j \in 1..Len(frame.cols) |-> frame.cols[j].name],
              LAMBDA c : matches(c, col))

\* merged_df[name]: the positions of every column of that name
Positions(frame, name) ==
    SelectSeq([j \in 1..Len(frame.cols) |-> j], LAMBDA j : frame.cols[j].name = name)

RECURSIVE Selected(_, _)
\* merged_df[relevant_cols]: for each listed name in turn, every column of
\* that name
Selected(frame, names) ==
    IF names = <<>> THEN <<>>
    ELSE Positions(frame, Head(names)) \o Selected(frame, Tail(names))

\* line 57: merged_df[relevant_cols].mean(axis=1)
RowMeans(frame, col) ==
    LET sel == Selected(frame, relevant_cols(frame, col))
    IN  [i \in 1..Len(frame.freq) |->
            Mean([q \in 1..Len(sel) |-> frame.cols[sel[q]].val[i]])]

RECURSIVE Counted(_, _)
\* lines 34-36: col_counts after the columns of one more file
Counted(counts, names) ==
    IF names = <<>> THEN counts
    ELSE LET c == Head(names)
             seen == \E q \in 1..Len(counts) : counts[q].name = c
             next == IF seen
                     THEN [q \in 1..Len(counts) |->
                             IF counts[q].name = c
                             THEN [counts[q] EXCEPT !.count = @ + 1] ELSE counts[q]]
                     ELSE Append(counts, [name |-> c, count |-> 1])
         IN  Counted(next, Tail(names))

InitCompile ==
    /\ PipeIdle
    /\ RunIdle
    /\ ChunkIdle
    /\ ReduceIdle
    /\ NormIdle
    /\ paths \in SeqsUpTo(AnimalFrames, MaxAnimals) \ {<<>>}
    /\ pidx = 0
    /\ merged_df = NoFrame
    /\ col_counts = <<>>
    /\ averaged = NoFrame
    /\ mpc = "loop"

\* lines 30-46: one file is read, counted and merged
CompileFile ==
    /\ mpc = "loop"
    /\ pidx < Len(paths)
    /\ paths[pidx + 1] # EmptyFile
    /\ LET frame == paths[pidx + 1]
       IN  /\ col_counts' = Counted(col_counts,
                                    [j \in 1..Len(frame.cols) |-> frame.cols[j].name])
           /\ merged_df' = IF pidx = 0 THEN frame ELSE Merge(merged_df, frame)
    /\ pidx' = pidx + 1
    /\ UNCHANGED <<paths, averaged, mpc>>
    /\ UNCHANGED <<chunkVars, reduceVars, normVars, runVars, pipeVars>>

\* lines 48-65: the columns are averaged and the table written
CompileWrite ==
    /\ mpc = "loop"
    /\ pidx = Len(paths)
    /\ averaged' = [freq |-> merged_df.freq,
                    cols |-> [q \in 1..Len(col_counts) |->
                                [name |-> col_counts[q].name,
                                 val |-> RowMeans(merged_df, col_counts[q].name)]]]
    /\ mpc' = "done"
    /\ UNCHANGED <<paths, pidx, merged_df, col_counts>>
    /\ UNCHANGED <<chunkVars, reduceVars, normVars, runVars, pipeVars>>

NextCompile == CompileFile \/ CompileWrite

SpecCompile == InitCompile /\ [][NextCompile]_vars

\* the files of a batch in which units may fail: a file of one band, or an
\* empty one
FaultFrames ==
    {EmptyFile} \cup {f \in AnimalFrames : f.freq = <<<<9>>>>}

InitCompileFaults ==
    /\ PipeIdle
    /\ RunIdle
    /\ ChunkIdle
    /\ ReduceIdle
    /\ NormIdle
    /\ paths \in SeqsUpTo(FaultFrames, MaxAnimals) \ {<<>>}
    /\ pidx = 0
    /\ merged_df = NoFrame
    /\ col_counts = <<>>
    /\ averaged = NoFrame
    /\ mpc = "loop"

\* line 31: read_csv raises on the file; nothing in combine_chunks catches
\* it, so the exception leaves the function
CompileRaise ==
    /\ mpc = "loop"
    /\ pidx < Len(paths)
    /\ paths[pidx + 1] = EmptyFile
    /\ mpc' = "raised"
    /\ UNCHANGED <<paths, pidx, merged_df, col_counts, averaged>>
    /\ UNCHANGED <<chunkVars, reduceVars, normVars, runVars, pipeVars>>

NextCompileFaults == CompileFile \/ CompileRaise \/ CompileWrite

SpecCompileFaults == InitCompileFaults /\ [][NextCompileFaults]_vars

----------------------------------------------------------------------------
(* Properties of combine_chunks *)

LessEq(x, y) == x.n * y.d <= y.n * x.d

\* the values, in row i of the merged table, of the columns named c or c_dup
OwnValues(c, i) ==
    {merged_df.cols[j].val[i] :
        j \in {p \in 1..Len(merged_df.cols) :
                  merged_df.cols[p].name \in {c, Dup(c)}
                  /\ IsNum(merged_df.cols[p].val[i])}}

\* C5: an output column c averages only the merged columns named c or c_dup:
\* each of its entries is missing if all of those are, and otherwise lies
\* between the least and the greatest of them; a column whose name only has c
\* as a prefix (test10 for test1) contributes nothing.
C5_OnlyOwnColumnsAveraged ==
    mpc = "done" =>
        \A q \in 1..Len(averaged.cols) : \A i \in 1..Len(averaged.freq) :
            LET own == OwnValues(averaged.cols[q].name, i)
                v == averaged.cols[q].val[i]
            IN  IF own = {} THEN v = NaN
                ELSE /\ IsNum(v)
                     /\ \E lo \in own : LessEq(lo, v)
                     /\ \E hi \in own : LessEq(v, hi)

\* the session names the animals' files have
NamesSeen == UNION {ColNames(paths[a]) : a \in 1..Len(paths)}

BandsSeen == UNION {Range(paths[a].freq) : a \in 1..Len(paths)}

\* no session name is a proper prefix of another one
NoPrefixCollision ==
    \A a, b \in NamesSeen : a # b => ~(Len(a) <= Len(b) /\ SubSeq(b, 1, Len(a)) = a)

\* the values the animals have for session c and band b, one per animal that
\* has a number there
Contributions(c, b) ==
    LET per == [a \in 1..Len(paths) |->
                   IF \E j \in 1..Len(paths[a].cols) : paths[a].cols[j].name = c
                   THEN ValAt(paths[a],
                              CHOOSE j \in 1..Len(paths[a].cols) : paths[a].cols[j].name = c,
                              b)
                   ELSE NaN]
    IN  SelectSeq(per, IsNum)

\* C6: for any number of animals (taken here without prefix-colliding session
\* names) the compiled table has one column per distinct session name and one
\* row per band seen, and each entry is the mean of the values of exactly the
\* animals that have one for that session and band, each counted once.
C6_OneColumnPerSessionMeanOverAnimals ==
    (mpc = "done" /\ NoPrefixCollision) =>
        /\ Len(averaged.cols) = Cardinality(NamesSeen)
        /\ {averaged.cols[q].name : q \in 1..Len(averaged.cols)} = NamesSeen
        /\ Len(averaged.freq) = Cardinality(BandsSeen)
        /\ Range(averaged.freq) = BandsSeen
        /\ \A q \in 1..Len(averaged.cols) : \A i \in 1..Len(averaged.freq) :
            LET own == Contributions(averaged.cols[q].name, averaged.freq[i])
                v == averaged.cols[q].val[i]
            IN  IF own = <<>> THEN v = NaN ELSE IsMeanOf(v, own)

\* C7: the rows of the compiled table are in increasing order of the numeric
\* value of the band (9, 20, 100), whatever the order and number of files.
C7_RowsInNumericBandOrder ==
    mpc = "done" =>
        \A i, j \in 1..Len(averaged.freq) :
            i < j => NumericValue(averaged.freq[i]) < NumericValue(averaged.freq[j])

\* C14: when one unit of a batch fails (here a file read_csv cannot read), the
\* failure is caught and the unit skipped; the stage goes on to every
\* remaining unit, so it only ever stops after it took all of them and wrote.
C14_FailedUnitIsSkipped ==
    (mpc # "loop") => (mpc = "done" /\ pidx = Len(paths))

----------------------------------------------------------------------------
(* normalize_data *)

SessionTypes == {"baseline", "test", "unknown"}

\* the default of the baseline_type option of run_analysis, which step 5
\* passes to normalize_data as baseline_session_type
baseline_type_default == "BL1"

\* the labels the caller may pass: the function's default and the CLI's
BaselineLabels == {"baseline", "BL1"}

NormCells == {Rat(0, 1), Rat(1, 1), Rat(3, 1), NaN}

\* the combined raw tables: one row per session file, a session type and a
\* value (or none) per frequency column
NormRows == [SessionType : SessionTypes, freq : [FreqCols -> NormCells]]

NormTables == SeqsUpTo(NormRows, MaxNormRows) \ {<<>>}

\* df[col]
Column(tbl, c) == [i \in 1..Len(tbl) |-> tbl[i].freq[c]]

\* lines 65-72: the z-score of one column, the mean only subtracted when the
\* deviation is not positive
Step1Col(col) ==
    LET mean_val == Mean(col)
        std_val == Std(col)
    IN  IF Positive(std_val)
        THEN [i \in 1..Len(col) |-> Over(Minus(col[i], mean_val), std_val)]
        ELSE [i \in 1..Len(col) |-> Minus(col[i], mean_val)]

\* lines 61-72
Step1(tbl) ==
    [i \in 1..Len(tbl) |->
        [tbl[i] EXCEPT !.freq = [c \in FreqCols |-> Step1Col(Column(tbl, c))[i]]]]

\* lines 77-79
baseline_data(tbl, label) == SelectSeq(tbl, LAMBDA row : row.SessionType = label)

\* the mutant: the statistics taken from all the rows
Step3Col_StatsOfAll(col, bcol) ==
    IF Positive(Std(col))
    THEN [i \in 1..Len(col) |-> Over(Minus(col[i], Mean(col)), Std(col))]
    ELSE [i \in 1..Len(col) |-> Minus(col[i], Mean(col))]

\* lines 98-111: one column rescaled by the statistics of its baseline rows
Step3Col(col, bcol) ==
    LET baseline_mean == Mean(bcol)
        baseline_std == Std(bcol)
    IN  IF Positive(baseline_std)
        THEN [i \in 1..Len(col) |-> Over(Minus(col[i], baseline_mean), baseline_std)]
        ELSE [i \in 1..Len(col) |-> Minus(col[i], baseline_mean)]

Step3(tbl, label) ==
    [i \in 1..Len(tbl) |->
        [tbl[i] EXCEPT !.freq =
            [c \in FreqCols |->
                Step3Col(Column(tbl, c), Column(baseline_data(tbl, label), c))[i]]]]

\* the mutant: the table as read is saved when there is no baseline row
FallbackTable_Raw(raw, step1) == raw

\* lines 88-94: the table saved when there is no baseline row
FallbackTable(raw, step1) == step1

InitNorm ==
    /\ PipeIdle
    /\ RunIdle
    /\ ChunkIdle
    /\ ReduceIdle
    /\ CompileIdle
    /\ ndf \in NormTables
    /\ baseline_session_type \in BaselineLabels
    /\ step1_df = <<>>
    /\ norm_out = <<>>
    /\ npc = "call"
    /\ nret = "none"

\* lines 28-72: the table is read and z-scored per frequency column
NormStep1 ==
    /\ npc = "call"
    /\ IF FreqCols = {}
       THEN /\ npc' = "done"
            /\ nret' = FALSE
            /\ step1_df' = step1_df
       ELSE /\ npc' = "step1"
            /\ nret' = nret
            /\ step1_df' = Step1(ndf)
    /\ UNCHANGED <<ndf, baseline_session_type, norm_out>>
    /\ UNCHANGED <<chunkVars, reduceVars, compileVars, runVars, pipeVars>>

\* lines 77-124: the baseline rows are selected; without any the step-1 table
\* is saved, otherwise every row is rescaled and the result saved
NormFinish ==
    /\ npc = "step1"
    /\ IF baseline_data(step1_df, baseline_session_type) = <<>>
       THEN norm_out' = FallbackTable(ndf, step1_df)
       ELSE norm_out' = Step3(step1_df, baseline_session_type)
    /\ nret' = TRUE
    /\ npc' = "done"
    /\ UNCHANGED <<ndf, baseline_session_type, step1_df>>
    /\ UNCHANGED <<chunkVars, reduceVars, compileVars, runVars, pipeVars>>

NextNorm == NormStep1 \/ NormFinish

SpecNorm == InitNorm /\ [][NextNorm]_vars

----------------------------------------------------------------------------
(* normalize_data, step 1 in floating point *)

\* pandas computes in binary floating point: every sum, quotient, difference
\* and product is rounded to the nearest number of FloatPrecision significant
\* bits, ties to even (float64 has 53 bits).  SpecNormFloat is normalize_data
\* with the statistics of step 1 rounded so; the last quotient of step 1 and
\* the arithmetic of step 3 are left exact, they do not decide whether a
\* step-1 value is zero.

RECURSIVE Pow2(_)
Pow2(e) == IF e = 0 THEN 1 ELSE 2 * Pow2(e - 1)

RECURSIVE RoundPos(_, _)
\* the positive rational a/b rounded to FloatPrecision significant bits
RoundPos(a, b) ==
    IF a >= b * Pow2(FloatPrecision) THEN Scale(RoundPos(a, 2 * b), 2, 1)
    ELSE IF a < b * Pow2(FloatPrecision - 1) THEN Scale(RoundPos(2 * a, b), 1, 2)
    ELSE LET q == a \div b
             r == a % b
             up == 2 * r > b \/ (2 * r = b /\ q % 2 = 1)
         IN  Rat(IF up THEN q + 1 ELSE q, 1)

Round(x) ==
    IF ~IsNum(x) THEN NaN
    ELSE IF x.n = 0 THEN x
    ELSE IF x.n > 0 THEN RoundPos(x.n, x.d)
    ELSE Scale(RoundPos(-x.n, x.d), -1, 1)

RECURSIVE FlSum(_, _)
\* the entries of s added one after the other to acc
FlSum(acc, s) == IF s = <<>> THEN acc ELSE FlSum(Round(Plus(acc, Head(s))), Tail(s))

\* Series.mean() in floating point
FlMean(col) ==
    LET present == SelectSeq(col, IsNum)
    IN  IF present = <<>> THEN NaN
        ELSE Round(Scale(FlSum(Rat(0, 1), present), 1, Len(present)))

\* the variance under Series.std() in floating point (ddof = 1); the standard
\* deviation is its square root, positive exactly if the variance is
FlVar(col) ==
    LET present == SelectSeq(col, IsNum)
        avg == FlMean(col)
        n == Len(present)
        sqr == [i \in 1..n |-> Round(Square(Round(Minus(avg, present[i]))))]
    IN  IF n < 2 THEN NaN ELSE Round(Scale(FlSum(Rat(0, 1), sqr), 1, n - 1))

\* lines 65-72 in floating point; a value divided by the deviation is kept as
\* the difference over the square root of the variance
Step1ColFloat(col) ==
    LET mean_val == FlMean(col)
        var == FlVar(col)
        diff(i) == Round(Minus(col[i], mean_val))
    IN  IF Positive(var)
        THEN [i \in 1..Len(col) |->
                IF IsNum(diff(i)) THEN Num(diff(i).n, diff(i).d, var.n, var.d) ELSE NaN]
        ELSE [i \in 1..Len(col) |-> diff(i)]

Step1Float(tbl) ==
    [i \in 1..Len(tbl) |->
        [tbl[i] EXCEPT !.freq = [c \in FreqCols |-> Step1ColFloat(Column(tbl, c))[i]]]]

\* the numbers of FloatPrecision bits of one binade
FloatCells == {Rat(m, 1) : m \in Pow2(FloatPrecision - 1)..(Pow2(FloatPrecision) - 1)}

FloatTables ==
    SeqsUpTo([SessionType : {"baseline", "test"}, freq : [FreqCols -> FloatCells]],
             MaxNormRows) \ {<<>>}

InitNormFloat ==
    /\ PipeIdle
    /\ RunIdle
    /\ ChunkIdle
    /\ ReduceIdle
    /\ CompileIdle
    /\ ndf \in FloatTables
    /\ baseline_session_type \in BaselineLabels
    /\ step1_df = <<>>
    /\ norm_out = <<>>
    /\ npc = "call"
    /\ nret = "none"

\* lines 28-72, the statistics rounded
NormStep1Float ==
    /\ npc = "call"
    /\ IF FreqCols = {}
       THEN /\ npc' = "done"
            /\ nret' = FALSE
            /\ step1_df' = step1_df
       ELSE /\ npc' = "step1"
            /\ nret' = nret
            /\ step1_df' = Step1Float(ndf)
    /\ UNCHANGED <<ndf, baseline_session_type, norm_out>>
    /\ UNCHANGED <<chunkVars, reduceVars, compileVars, runVars, pipeVars>>

NextNormFloat == NormStep1Float \/ NormFinish

SpecNormFloat == InitNormFloat /\ [][NextNormFloat]_vars

----------------------------------------------------------------------------
(* Properties of normalize_data *)

\* the rows that carry the baseline label
BaselineRowSet == {r \in 1..Len(ndf) : ndf[r].SessionType = baseline_session_type}

\* the numbers of a column of tbl, in the rows of R
Sample(tbl, c, R) ==
    SelectSeq([i \in 1..Len(tbl) |-> IF i \in R THEN tbl[i].freq[c] ELSE NaN], IsNum)

\* out is x rescaled by the sample: x less the sample's mean, divided by the
\* sample's deviation when the sample has two different values and not divided
\* otherwise; no number if x or the whole sample is missing.  With S the sum
\* and Q the sum of squares of the n sample values, the mean is S/n and the
\* variance (n*Q - S*S) / (n*(n-1)).
RescaledBy(out, x, sample) ==
    IF ~IsNum(x) \/ sample = <<>> THEN out = NaN
    ELSE LET n == Len(sample)
             S == Sum(sample)
             Q == Sum([i \in 1..n |-> Square(sample[i])])
             spread == \E i, j \in 1..n : sample[i] # sample[j]
         IN  /\ IsNum(out)
             /\ out.n * x.d * S.d * n = (x.n * S.d * n - S.n * x.d) * out.d
             /\ IF spread
                THEN out.rn * (Q.d * S.d * S.d * n * (n - 1))
                        = out.rd * (n * Q.n * S.d * S.d - S.n * S.n * Q.d)
                ELSE out.rn * x.rd = out.rd * x.rn

\* the values of a column are all present and identical
AllIdentical(c) ==
    \A i \in 1..Len(ndf) : IsNum(ndf[i].freq[c]) /\ ndf[i].freq[c] = ndf[1].freq[c]

\* C8: after step 1, a frequency column whose values are all identical (a
\* single row included) is exactly 0 in every row, and the call succeeds.
C8_ZeroStdColumnIsZero ==
    /\ npc \in {"step1", "done"} =>
        \A c \in FreqCols :
            AllIdentical(c) =>
                \A i \in 1..Len(ndf) : IsNum(step1_df[i].freq[c]) /\ step1_df[i].freq[c].n = 0
    /\ npc = "done" => nret = TRUE

\* C9: with at least one baseline row, every row of the output, baseline or
\* not, is its step-1 value less the mean of the baseline rows' step-1 values,
\* divided by their standard deviation, or not divided when that is zero.
C9_EveryRowRescaledByBaseline ==
    (npc = "done" /\ BaselineRowSet # {}) =>
        /\ nret = TRUE
        /\ Len(norm_out) = Len(ndf)
        /\ \A r \in 1..Len(ndf) :
            /\ norm_out[r].SessionType = ndf[r].SessionType
            /\ \A c \in FreqCols :
                RescaledBy(norm_out[r].freq[c], step1_df[r].freq[c],
                           Sample(step1_df, c, BaselineRowSet))

\* C9 witness: two baseline rows with different values and a third row that
\* is not a baseline row
C9_Witness ==
    /\ npc = "done"
    /\ Cardinality(BaselineRowSet) = 2
    /\ Len(ndf) = 3
    /\ \A c \in FreqCols :
        /\ \E i, j \in BaselineRowSet : step1_df[i].freq[c] # step1_df[j].freq[c]
        /\ \A i \in 1..Len(ndf) : IsNum(norm_out[i].freq[c])

\* C10: with no row carrying the baseline label, the written table is exactly
\* the step-1 table, each column of it the z-score of the input column, and
\* the call returns True.
C10_NoBaselineSavesStep1 ==
    (npc = "done" /\ BaselineRowSet = {}) =>
        /\ nret = TRUE
        /\ norm_out = step1_df
        /\ Len(norm_out) = Len(ndf)
        /\ \A r \in 1..Len(ndf) : \A c \in FreqCols :
            RescaledBy(norm_out[r].freq[c], ndf[r].freq[c], Sample(ndf, c, 1..Len(ndf)))

\* C10 witness: a finished call on a table without baseline rows whose values differ
C10_Witness ==
    /\ npc = "done"
    /\ BaselineRowSet = {}
    /\ nret = TRUE
    /\ \E c \in FreqCols : \E i, j \in 1..Len(ndf) :
        IsNum(ndf[i].freq[c]) /\ IsNum(ndf[j].freq[c]) /\ ndf[i].freq[c] # ndf[j].freq[c]

\* C17: called with the default baseline_type of run_analysis on a combined
\* raw table that has a row of a baseline session (per_chunk_analysis tags it
\* "baseline"), normalize_data selects a baseline subset that is not empty and
\* writes the table rescaled by it, not the step-1 table of the fallback.
C17_DefaultBaselineTypeSelectsBaseline ==
    (/\ npc = "done"
     /\ baseline_session_type = baseline_type_default
     /\ \E r \in 1..Len(ndf) : ndf[r].SessionType = session_type(PlainStem)) =>
        /\ baseline_data(step1_df, baseline_session_type) # <<>>
        /\ norm_out = Step3(step1_df, baseline_session_type)

\* C18: in the written table an entry is missing exactly where the entry of
\* the input table is missing: no present value is lost, no missing one
\* replaced by a number.
C18_PresentStaysPresent ==
    (npc = "done" /\ nret = TRUE) =>
        \A r \in 1..Len(ndf) : \A c \in FreqCols :
            IsNum(norm_out[r].freq[c]) <=> IsNum(ndf[r].freq[c])

----------------------------------------------------------------------------
(* run_analysis: the five steps on the paths of the output directory.      *)
(* A directory is the sequence of its components below output_data_dir, a  *)
(* file name a sequence of pieces (<<"chunk", "_", "00", ".csv">>).  The    *)
(* raw data directory has the layout <animal>/<session>/<name>_cFFT.csv,   *)
(* and no component of output_data_dir itself is "data", "input",          *)
(* "original" or "chunked".  Of a table only what decides the paths is     *)
(* kept: whether it can be read, the sleep stages it has rows of, and the  *)
(* number of chunk files chunk_by_time cuts from it.                       *)

RawAnimals == {"RAT1", "RAT2"}

RawSessions == {"BL1", "T1"}

Unreadable == [ok |-> FALSE, stages |-> {}, windows |-> 0]

Contents ==
    {Unreadable} \cup [ok : {TRUE}, stages : {{"R"}, {"R", "NR"}}, windows : 1..MaxWindows]

RECURSIVE SetsUpTo(_, _)
SetsUpTo(S, n) ==
    IF n = 0 THEN {{}}
    ELSE LET T == SetsUpTo(S, n - 1) IN T \cup {t \cup {x} : t \in T, x \in S}

\* file_handling.py:17: what rglob("*_cFFT.csv") finds, one file per session
RawDirs ==
    {S \in SetsUpTo([animal : RawAnimals, session : RawSessions, content : Contents],
                    MaxRawFiles) :
        \A f, g \in S : (f.animal = g.animal /\ f.session = g.session) => f = g}

\* mkdir(parents=True, exist_ok=True)
Mkdir(ds, d) == ds \cup {SubSeq(d, 1, k) : k \in 1..Len(d)}

File(d, n, c, src) == [dir |-> d, name |-> n, content |-> c, from |-> src]

\* to_csv: the file is created or replaced
Put(fs, f) == {g \in fs : ~(g.dir = f.dir /\ g.name = f.name)} \cup {f}

PutAll(fs, new) ==
    {g \in fs : ~\E f \in new : g.dir = f.dir /\ g.name = f.name} \cup new

Exists(fs, d, n) == \E g \in fs : g.dir = d /\ g.name = n

EndsWith(n, suffix) ==
    Len(n) >= Len(suffix) /\ SubSeq(n, Len(n) - Len(suffix) + 1, Len(n)) = suffix

\* "%02d" % i
NN(i) == <<"00", "01", "02", "03">>[i + 1]

\* int(s) of a piece; a piece that is no number raises ValueError
IsInt(s) == s \in {"00", "01", "02", "03"}

int(s) == CHOOSE i \in 0..3 : NN(i) = s

SleepStates == {"rem", "nrem"}

StageOf(st) == IF st = "rem" THEN "R" ELSE "NR"

\* file_handling.py:66
CleanedName(session) == <<session, "_", "cleaned", ".csv">>

\* the session directory a user files a cleaned session under
SubOf(session) == IF session = "BL1" THEN "baseline" ELSE "test"

\* the output directory before the run: empty; or holding cleaned files in
\* the layout input/<animal>/<baseline|test>/ of the docstring of clean_file;
\* or holding those and chunk files <session>_00.csv in <animal>/<state>/chunked/
\* as the comments of per_chunk_analysis name them
CleanedBefore(R) ==
    {File(<<"input", f.animal, SubOf(f.session)>>, CleanedName(f.session), f.content, {}) :
        f \in {g \in R : g.content.ok}}

ChunksBefore(R) ==
    UNION {{File(<<f.animal, st, "chunked">>, <<SubOf(f.session), "_", "00", ".csv">>,
                 [ok |-> TRUE, stages |-> {StageOf(st)}, windows |-> 1], {}) :
              st \in {t \in SleepStates : StageOf(t) \in f.content.stages}} :
           f \in {g \in R : g.content.ok}}

Layouts(R) == {{}, CleanedBefore(R), CleanedBefore(R) \cup ChunksBefore(R)}

DirsOf(fs) == UNION {Mkdir({}, f.dir) : f \in fs}

InitRun ==
    /\ ChunkIdle
    /\ ReduceIdle
    /\ CompileIdle
    /\ NormIdle
    /\ RunIdle
    /\ traces_cfft_files \in RawDirs
    /\ files \in Layouts(traces_cfft_files)
    /\ dirs = DirsOf(files)
    /\ step = "start"
    /\ todo = {}
    /\ count = 0
    /\ animals = {}
    /\ processed = {}
    /\ max_chunk_num = -1
    /\ exit_code = -1

\* cli.py:49-93: the raw files are looked for, the directories created
RunStart ==
    /\ step = "start"
    /\ exit_code = -1
    /\ IF traces_cfft_files = {}
       THEN /\ exit_code' = 1
            /\ UNCHANGED <<dirs, step, todo, animals>>
       ELSE /\ animals' = {f.animal : f \in traces_cfft_files}
            /\ dirs' = dirs \cup Mkdir({}, <<"input">>)
                        \cup UNION {Mkdir({}, <<a, st, sub>>) :
                                      a \in animals', st \in SleepStates,
                                      sub \in {"original", "chunked"}}
            /\ step' = "clean"
            /\ todo' = traces_cfft_files
            /\ exit_code' = exit_code
    /\ UNCHANGED <<traces_cfft_files, files, count, processed, max_chunk_num>>
    /\ UNCHANGED <<chunkVars, reduceVars, compileVars, normVars, runVars>>

\* cli.py:94-99, file_handling.py:20-89: clean_file on one raw file
RunClean ==
    /\ step = "clean"
    /\ exit_code = -1
    /\ \E f \in todo :
        LET output_dir == <<"input", f.animal>>
            output_name == CleanedName(f.session)
        IN  /\ todo' = todo \ {f}
            /\ dirs' = Mkdir(dirs, output_dir)
            /\ IF Exists(files, output_dir, output_name)
               THEN /\ count' = count + 1
                    /\ files' = files
               ELSE IF f.content.ok
               THEN /\ count' = count + 1
                    /\ files' = Put(files, File(output_dir, output_name, f.content, {}))
               ELSE /\ count' = count
                    /\ files' = files
    /\ UNCHANGED <<traces_cfft_files, step, animals, processed, max_chunk_num, exit_code>>
    /\ UNCHANGED <<chunkVars, reduceVars, compileVars, normVars, runVars>>

\* cli.py:101-115
RunCleanDone ==
    /\ step = "clean"
    /\ exit_code = -1
    /\ todo = {}
    /\ IF count = 0
       THEN /\ exit_code' = 1
            /\ UNCHANGED <<step, todo, processed>>
       ELSE /\ step' = "preprocess"
            /\ todo' = animals \X {"baseline", "test"}
            /\ processed' = {}
            /\ exit_code' = exit_code
    /\ UNCHANGED <<traces_cfft_files, dirs, files, count, animals, max_chunk_num>>
    /\ UNCHANGED <<chunkVars, reduceVars, compileVars, normVars, runVars>>

RECURSIVE StripCleaned(_)
\* preprocess.py:77-79: stem.replace("_cleaned", "")
StripCleaned(n) ==
    IF Len(n) < 2 THEN n
    ELSE IF n[1] = "_" /\ n[2] = "cleaned" THEN StripCleaned(SubSeq(n, 3, Len(n)))
    ELSE <<n[1]>> \o StripCleaned(Tail(n))

\* Path.stem of a name with a suffix
Stem(n) == SubSeq(n, 1, Len(n) - 1)

\* glob("*.csv")
IsCsv(n) == EndsWith(n, <<".csv">>)

\* preprocess.py:82-101: the two tables preprocess_and_split writes for the
\* cleaned file c found under input/<animal>/<session_type>/
SplitFiles(c) ==
    {File(<<c.dir[2], st, "original", c.dir[3]>>,
          StripCleaned(Stem(c.name)) \o <<"_", st, ".csv">>,
          [ok |-> TRUE,
           stages |-> c.content.stages \cap {StageOf(st)},
           windows |-> IF StageOf(st) \in c.content.stages THEN c.content.windows ELSE 0],
          {}) : st \in SleepStates}

\* cli.py:116-138: one (animal, session directory) of step 2
RunPreprocess ==
    /\ step = "preprocess"
    /\ exit_code = -1
    /\ \E u \in todo :
        LET session_type_sub_dir == <<"input", u[1], u[2]>>
            cleaned == IF session_type_sub_dir \in dirs
                       THEN {c \in files : c.dir = session_type_sub_dir /\ IsCsv(c.name)
                                            /\ c.content.ok}
                       ELSE {}
            written == UNION {SplitFiles(c) : c \in cleaned}
            original == {<<u[1], st, "original", u[2]>> : st \in SleepStates}
        IN  /\ todo' = todo \ {u}
            /\ files' = PutAll(files, written)
            /\ dirs' = IF cleaned = {} THEN dirs
                       ELSE dirs \cup UNION {Mkdir({}, d) : d \in original}
            /\ processed' =
                   IF cleaned = {} THEN processed
                   ELSE processed \cup {<<g.dir, g.name>> :
                                           g \in {h \in files' : h.dir \in original
                                                                  /\ IsCsv(h.name)}}
    /\ UNCHANGED <<traces_cfft_files, step, count, animals, max_chunk_num, exit_code>>
    /\ UNCHANGED <<chunkVars, reduceVars, compileVars, normVars, runVars>>

\* cli.py:140-151
RunPreprocessDone ==
    /\ step = "preprocess"
    /\ exit_code = -1
    /\ todo = {}
    /\ IF processed = {}
       THEN /\ exit_code' = 1
            /\ UNCHANGED <<step, todo, count>>
       ELSE /\ step' = "chunk"
            /\ todo' = processed
            /\ count' = 0
            /\ exit_code' = exit_code
    /\ UNCHANGED <<traces_cfft_files, dirs, files, animals, processed, max_chunk_num>>
    /\ UNCHANGED <<chunkVars, reduceVars, compileVars, normVars, runVars>>

\* the file of a path
FileAt(fs, p) == CHOOSE g \in fs : g.dir = p[1] /\ g.name = p[2]

\* chunk.py:33-35: parts.index("original")
OriginalIdx(d) == CHOOSE k \in 1..Len(d) : d[k] = "original" /\ \A j \in 1..(k - 1) : d[j] # "original"

\* chunk.py:41-46: the directory chunk_by_time writes the chunks of p to
chunk_output_dir(p) ==
    LET parts == p[1] \o <<p[2]>>
        original_idx == OriginalIdx(p[1])
    IN  <<parts[original_idx - 2], parts[original_idx - 1], "chunked",
          parts[original_idx + 1]>>

\* glob("chunk_*.csv")
IsChunkName(n) == Len(n) >= 3 /\ n[1] = "chunk" /\ n[2] = "_" /\ IsCsv(n)

ChunkName(i) == <<"chunk", "_", NN(i), ".csv">>

\* chunk.py:67-90 on the paths: the chunk files cut from the table f
ChunkFiles(f, out) ==
    {File(out, ChunkName(k), [f.content EXCEPT !.windows = 1], {}) :
        k \in 0..(f.content.windows - 1)}

\* cli.py:152-154, chunk.py:17-96: chunk_by_time on one split file
RunChunk ==
    /\ step = "chunk"
    /\ exit_code = -1
    /\ \E p \in todo :
        LET f == FileAt(files, p)
            out == chunk_output_dir(p)
        IN  /\ todo' = todo \ {p}
            /\ dirs' = Mkdir(dirs, out)
            /\ IF \E g \in files : g.dir = out /\ IsChunkName(g.name)
               THEN \* chunk files exist: skipped, True
                    /\ files' = files
                    /\ count' = count + 1
               ELSE IF f.content.stages = {}
               THEN \* no row: iloc[-1] raises, False
                    /\ files' = files
                    /\ count' = count
               ELSE /\ files' = PutAll(files, ChunkFiles(f, out))
                    /\ count' = count + 1
    /\ UNCHANGED <<traces_cfft_files, step, animals, processed, max_chunk_num, exit_code>>
    /\ UNCHANGED <<chunkVars, reduceVars, compileVars, normVars, runVars>>

\* the pieces of two characters a name can have before its suffix
TwoChars == {"00", "01", "02", "03", "T1", "NR"}

\* cli.py:167-176: the numbers rglob("*_??.csv") and int(stem[-2:]) find
ChunkNumbers(fs) ==
    {int(g.name[Len(g.name) - 1]) :
        g \in {h \in fs : /\ Len(h.name) >= 3
                           /\ IsCsv(h.name)
                           /\ h.name[Len(h.name) - 2] = "_"
                           /\ h.name[Len(h.name) - 1] \in TwoChars
                           /\ IsInt(h.name[Len(h.name) - 1])}}

Max(S) == CHOOSE m \in S : \A x \in S : x <= m

\* cli.py:156-184
RunChunkDone ==
    /\ step = "chunk"
    /\ exit_code = -1
    /\ todo = {}
    /\ IF count = 0 \/ ChunkNumbers(files) = {}
       THEN /\ exit_code' = 1
            /\ UNCHANGED <<step, todo, count, max_chunk_num>>
       ELSE /\ max_chunk_num' = Max(ChunkNumbers(files))
            /\ step' = "analysis"
            /\ todo' = animals \X SleepStates \X (0..max_chunk_num')
            /\ count' = 0
            /\ exit_code' = exit_code
    /\ UNCHANGED <<traces_cfft_files, dirs, files, animals, processed>>
    /\ UNCHANGED <<chunkVars, reduceVars, compileVars, normVars, runVars>>

RawName(i) == <<"chunk", "_", NN(i), "_", "raw", ".csv">>

NormName(i) == <<"chunk", "_", NN(i), "_", "norm", ".csv">>

\* chunk.py:121-125: glob("*_NN.csv") in <animal>/<sleep_state>/chunked, the
\* directory itself only
matching_files(fs, a, st, i) ==
    {g \in fs : g.dir = <<a, st, "chunked">> /\ EndsWith(g.name, <<"_", NN(i), ".csv">>)}

\* cli.py:185-191, chunk.py:99-216: per_chunk_analysis for one (animal,
\* sleep state, chunk number)
RunAnalyse ==
    /\ step = "analysis"
    /\ exit_code = -1
    /\ \E u \in todo :
        LET matching == matching_files(files, u[1], u[2], u[3])
        IN  /\ todo' = todo \ {u}
            /\ IF matching = {}
               THEN /\ files' = files
                    /\ count' = count
               ELSE /\ files' = Put(files,
                                    File(<<u[1], u[2], "chunked">>, RawName(u[3]),
                                         [ok |-> TRUE, stages |-> {StageOf(u[2])}, windows |-> 1],
                                         {<<g.dir, g.name>> : g \in matching}))
                    /\ count' = count + 1
    /\ UNCHANGED <<traces_cfft_files, dirs, step, animals, processed, max_chunk_num, exit_code>>
    /\ UNCHANGED <<chunkVars, reduceVars, compileVars, normVars, runVars>>

\* cli.py:193-204
RunAnalyseDone ==
    /\ step = "analysis"
    /\ exit_code = -1
    /\ todo = {}
    /\ IF count = 0
       THEN /\ exit_code' = 1
            /\ UNCHANGED <<step, todo, count>>
       ELSE /\ step' = "normalize"
            /\ todo' = animals \X SleepStates \X (0..max_chunk_num)
            /\ count' = 0
            /\ exit_code' = exit_code
    /\ UNCHANGED <<traces_cfft_files, dirs, files, animals, processed, max_chunk_num>>
    /\ UNCHANGED <<chunkVars, reduceVars, compileVars, normVars, runVars>>

\* cli.py:205-219, normalize.py:28-124: normalize_data on one combined file,
\* if there is one
RunNormalize ==
    /\ step = "normalize"
    /\ exit_code = -1
    /\ \E u \in todo :
        LET chunked == <<u[1], u[2], "chunked">>
        IN  /\ todo' = todo \ {u}
            /\ IF Exists(files, chunked, RawName(u[3]))
               THEN /\ files' = Put(files,
                                    File(chunked, NormName(u[3]),
                                         FileAt(files, <<chunked, RawName(u[3])>>).content,
                                         {<<chunked, RawName(u[3])>>}))
                    /\ count' = count + 1
               ELSE /\ files' = files
                    /\ count' = count
    /\ UNCHANGED <<traces_cfft_files, dirs, step, animals, processed, max_chunk_num, exit_code>>
    /\ UNCHANGED <<chunkVars, reduceVars, compileVars, normVars, runVars>>

\* cli.py:223-233
RunNormalizeDone ==
    /\ step = "normalize"
    /\ exit_code = -1
    /\ todo = {}
    /\ exit_code' = IF count = 0 THEN 1 ELSE 0
    /\ UNCHANGED <<traces_cfft_files, dirs, files, step, todo, count, animals, processed,
                   max_chunk_num>>
    /\ UNCHANGED <<chunkVars, reduceVars, compileVars, normVars, runVars>>

NextRun ==
    \/ RunStart
    \/ RunClean
    \/ RunCleanDone
    \/ RunPreprocess
    \/ RunPreprocessDone
    \/ RunChunk
    \/ RunChunkDone
    \/ RunAnalyse
    \/ RunAnalyseDone
    \/ RunNormalize
    \/ RunNormalizeDone

SpecRun == InitRun /\ [][NextRun]_vars

\* run_analysis is one sequential command: it keeps running until it exits
SpecRunLive == SpecRun /\ WF_vars(NextRun)

----------------------------------------------------------------------------
(* Properties of run_analysis *)

\* C15: started on an empty output directory with at least one well-formed
\* raw file that has REM and NREM rows, the run goes through its steps,
\* eventually has written a chunk_XX_norm.csv file and exits with status 0.
C15_RunWritesNormalizedArtifact ==
    (/\ files = {}
     /\ dirs = {}
     /\ \E f \in traces_cfft_files : f.content.ok /\ f.content.stages = {"R", "NR"}) =>
        <>(/\ exit_code = 0
           /\ \E g \in files : \E i \in 0..3 : g.name = NormName(i))

\* per_chunk_analysis has been called for the animal, sleep state and number
Analysed(a, st, i) ==
    \/ step = "analysis" /\ <<a, st, i>> \notin todo /\ i <= max_chunk_num
    \/ step = "normalize"

\* C16: every chunk file chunk_by_time wrote for an animal, sleep state,
\* session and window number i is among the files a later
\* per_chunk_analysis(output_base_dir, animal, sleep_state, i) matched, and
\* chunk_i_raw.csv holds the row reduced from it.
C16_ChunkFilesReachReducer ==
    \A a \in animals : \A st \in SleepStates : \A i \in 0..3 :
        \A f \in files :
            (/\ Len(f.dir) = 4
             /\ SubSeq(f.dir, 1, 3) = <<a, st, "chunked">>
             /\ f.name = ChunkName(i)
             /\ Analysed(a, st, i)) =>
                \E g \in files :
                    /\ g.dir = <<a, st, "chunked">>
                    /\ g.name = RawName(i)
                    /\ <<f.dir, f.name>> \in g.from

====
